---- MODULE Spec2Model ----
(***************************************************************************)
(* Model of agent.py: the keyword heuristics (analyze_email_tool,          *)
(* classify_email_tool), the subject/notification helpers of               *)
(* EmailAssistant and the sequential process_email pipeline.               *)
(*                                                                         *)
(* A Python str is a sequence of one-character strings, so that lower(),   *)
(* strip(), split('\n'), slicing and the `in` substring test are computed  *)
(* and not assumed.                                                        *)
(***************************************************************************)
EXTENDS Integers, Sequences, FiniteSets

VARIABLES
    email_content,    \* the text handed to the operation
    nfrags,           \* how many fragments the caller put into email_content
    pc,               \* position of the caller / of process_email
    subject,          \* local `subject` (step 1) or value returned by _extract_subject
    analysis_result,  \* local of process_email
    classification,   \* local of process_email
    summary,          \* local of process_email
    reply,            \* local of process_email
    notification,     \* local of process_email
    alerts,           \* calls received by NotificationManager.send_notification
    requests,         \* Crew.kickoff calls issued by the current invocation
    steps,            \* the steps the current invocation has executed, in order
    returned,         \* the dictionaries process_email returned to its caller
    raised,           \* the exception that left process_email, if any
    remembered        \* the outcome of one earlier invocation (SpecSeq only)

vars == << email_content, nfrags, pc, subject, analysis_result, classification,
           summary, reply, notification, alerts, requests, steps, returned,
           raised, remembered >>

(***************************************************************************)
(* Bounds of the model.                                                    *)
(***************************************************************************)
MaxFrags == 3

FillerLen == 30

(***************************************************************************)
(* Python str primitives.                                                  *)
(***************************************************************************)
Upper == <<"A", "B", "C", "D", "E", "F", "G", "H", "I", "J", "K", "L", "M", "N", "O", "P", "Q", "R", "S", "T", "U", "V", "W", "X", "Y", "Z">>

LowerLetters == <<"a", "b", "c", "d", "e", "f", "g", "h", "i", "j", "k", "l", "m", "n", "o", "p", "q", "r", "s", "t", "u", "v", "w", "x", "y", "z">>

Whitespace == {" ", "\t", "\n", "\r", "\f"}

\* the lower-case letter of each upper-case letter
ToLower ==
    [c \in {Upper[i] : i \in 1..Len(Upper)} |->
        LowerLetters[CHOOSE i \in 1..Len(Upper) : Upper[i] = c]]

lower_char(c) == IF c \in DOMAIN ToLower THEN ToLower[c] ELSE c

\* str.lower()
lower(s) == [i \in 1..Len(s) |-> lower_char(s[i])]

\* `k in s` for two strings
contains(s, k) ==
    \E i \in 0..(Len(s) - Len(k)) : \A j \in 1..Len(k) : s[i + j] = k[j]

\* str.strip()
strip(s) ==
    LET keep == {i \in 1..Len(s) : s[i] \notin Whitespace}
    IN  IF keep = {} THEN << >>
        ELSE LET first == CHOOSE i \in keep : \A j \in keep : i <= j
                 last  == CHOOSE i \in keep : \A j \in keep : j <= i
             IN  SubSeq(s, first, last)

\* str.split(sep) for a one-character separator: always at least one piece
RECURSIVE split(_, _)
split(s, sep) ==
    LET at == {i \in 1..Len(s) : s[i] = sep}
    IN  IF at = {} THEN << s >>
        ELSE LET i == CHOOSE x \in at : \A y \in at : x <= y
             IN  << SubSeq(s, 1, i - 1) >> \o split(SubSeq(s, i + 1, Len(s)), sep)

\* any(keyword in text for keyword in keywords)
any_in(keywords, text) ==
    \E n \in 1..Len(keywords) : contains(text, keywords[n])

\* sum(1 for keyword in keywords if keyword in text)
RECURSIVE score(_, _)
score(keywords, text) ==
    IF keywords = << >> THEN 0
    ELSE (IF contains(text, Head(keywords)) THEN 1 ELSE 0) + score(Tail(keywords), text)

(***************************************************************************)
(* analyze_email_tool                                                      *)
(***************************************************************************)
urgency_keywords ==
    << <<"u", "r", "g", "e", "n", "t">>,
       <<"a", "s", "a", "p">>,
       <<"i", "m", "p", "o", "r", "t", "a", "n", "t">>,
       <<"d", "e", "a", "d", "l", "i", "n", "e">>,
       <<"m", "e", "e", "t", "i", "n", "g">>,
       <<"c", "o", "n", "f", "i", "r", "m">>,
       <<"m", "a", "n", "a", "g", "e", "r">>,
       <<"c", "l", "i", "e", "n", "t">>,
       <<"t", "o", "m", "o", "r", "r", "o", "w">>,
       <<"t", "o", "d", "a", "y">>,
       <<"e", "m", "e", "r", "g", "e", "n", "c", "y">> >>

\* variant: the analysis list lost "click here"
analyze_spam_indicators_short ==
    << <<"l", "o", "t", "t", "e", "r", "y">>,
       <<"w", "i", "n", "n", "e", "r">>,
       <<"f", "r", "e", "e", " ", "m", "o", "n", "e", "y">>,
       <<"n", "i", "g", "e", "r", "i", "a", "n", " ", "p", "r", "i", "n", "c", "e">>,
       <<"c", "o", "n", "g", "r", "a", "t", "u", "l", "a", "t", "i", "o", "n", "s", " ", "y", "o", "u", " ", "w", "o", "n">>,
       <<"a", "c", "t", " ", "n", "o", "w">> >>

analyze_spam_indicators ==
    << <<"l", "o", "t", "t", "e", "r", "y">>,
       <<"w", "i", "n", "n", "e", "r">>,
       <<"c", "l", "i", "c", "k", " ", "h", "e", "r", "e">>,
       <<"f", "r", "e", "e", " ", "m", "o", "n", "e", "y">>,
       <<"n", "i", "g", "e", "r", "i", "a", "n", " ", "p", "r", "i", "n", "c", "e">>,
       <<"c", "o", "n", "g", "r", "a", "t", "u", "l", "a", "t", "i", "o", "n", "s", " ", "y", "o", "u", " ", "w", "o", "n">>,
       <<"a", "c", "t", " ", "n", "o", "w">> >>

analyze_email_tool(text) ==
    [ is_urgent      |-> any_in(urgency_keywords, lower(text)),
      is_spam        |-> any_in(analyze_spam_indicators, lower(text)),
      content_length |-> Len(text) ]

(***************************************************************************)
(* classify_email_tool                                                     *)
(***************************************************************************)
classify_spam_indicators ==
    << <<"l", "o", "t", "t", "e", "r", "y">>,
       <<"w", "i", "n", "n", "e", "r">>,
       <<"c", "l", "i", "c", "k", " ", "h", "e", "r", "e">>,
       <<"f", "r", "e", "e", " ", "m", "o", "n", "e", "y">> >>

work_keywords ==
    << <<"m", "e", "e", "t", "i", "n", "g">>,
       <<"p", "r", "o", "j", "e", "c", "t">>,
       <<"d", "e", "a", "d", "l", "i", "n", "e">>,
       <<"m", "a", "n", "a", "g", "e", "r">>,
       <<"c", "l", "i", "e", "n", "t">>,
       <<"p", "r", "o", "p", "o", "s", "a", "l">>,
       <<"p", "r", "e", "s", "e", "n", "t", "a", "t", "i", "o", "n">>,
       <<"r", "e", "p", "o", "r", "t">>,
       <<"t", "e", "a", "m">>,
       <<"o", "f", "f", "i", "c", "e">>,
       <<"s", "c", "h", "e", "d", "u", "l", "e">> >>

personal_keywords ==
    << <<"f", "r", "i", "e", "n", "d">>,
       <<"f", "a", "m", "i", "l", "y">>,
       <<"w", "e", "e", "k", "e", "n", "d">>,
       <<"p", "a", "r", "t", "y">>,
       <<"d", "i", "n", "n", "e", "r">>,
       <<"b", "i", "r", "t", "h", "d", "a", "y">> >>

\* variant: the keyword scores are compared before the spam check
classify_scores_first(text) ==
    LET email_lower    == lower(text)
        work_score     == score(work_keywords, email_lower)
        personal_score == score(personal_keywords, email_lower)
    IN  IF work_score > personal_score THEN "Work"
        ELSE IF personal_score > work_score THEN "Personal"
        ELSE IF any_in(classify_spam_indicators, email_lower) THEN "Spam"
        ELSE "Other"

\* variant: a tie goes to Work (>= for >)
classify_ties_to_work(text) ==
    IF any_in(classify_spam_indicators, lower(text)) THEN "Spam"
    ELSE LET email_lower    == lower(text)
             work_score     == score(work_keywords, email_lower)
             personal_score == score(personal_keywords, email_lower)
         IN  IF work_score >= personal_score THEN "Work"
             ELSE IF personal_score > work_score THEN "Personal"
             ELSE "Other"

\* variant: the category degrades once an earlier call has failed
classify_after_failure(text) ==
    IF remembered # << >> /\ remembered[1].failed THEN "Other"
    ELSE IF any_in(classify_spam_indicators, lower(text)) THEN "Spam"
    ELSE LET email_lower    == lower(text)
             work_score     == score(work_keywords, email_lower)
             personal_score == score(personal_keywords, email_lower)
         IN  IF work_score > personal_score THEN "Work"
             ELSE IF personal_score > work_score THEN "Personal"
             ELSE "Other"

classify_email_tool(text) ==
    IF any_in(classify_spam_indicators, lower(text)) THEN "Spam"
    ELSE LET email_lower    == lower(text)
             work_score     == score(work_keywords, email_lower)
             personal_score == score(personal_keywords, email_lower)
         IN  IF work_score > personal_score THEN "Work"
             ELSE IF personal_score > work_score THEN "Personal"
             ELSE "Other"

(***************************************************************************)
(* EmailAssistant helpers                                                  *)
(***************************************************************************)
urgent_keywords ==
    << <<"u", "r", "g", "e", "n", "t">>,
       <<"m", "e", "e", "t", "i", "n", "g">>,
       <<"d", "e", "a", "d", "l", "i", "n", "e">>,
       <<"m", "a", "n", "a", "g", "e", "r">>,
       <<"c", "l", "i", "e", "n", "t">>,
       <<"t", "o", "m", "o", "r", "r", "o", "w">>,
       <<"t", "o", "d", "a", "y">>,
       <<"a", "s", "a", "p">>,
       <<"i", "m", "p", "o", "r", "t", "a", "n", "t">>,
       <<"e", "m", "e", "r", "g", "e", "n", "c", "y">> >>

_is_urgent(text) == any_in(urgent_keywords, lower(text))

NewEmail == <<"N", "e", "w", " ", "E", "m", "a", "i", "l">>

Ellipsis == <<".", ".", ".">>

SubjectLimit == 60

\* variant: a line of exactly SubjectLimit characters is truncated too (>= for >)
_extract_subject_ge(text) ==
    LET lines == split(strip(text), "\n")
        subj  == IF lines # << >> THEN lines[1] ELSE NewEmail
    IN  IF Len(subj) >= SubjectLimit
        THEN SubSeq(subj, 1, SubjectLimit) \o Ellipsis
        ELSE subj

_extract_subject(text) ==
    LET lines == split(strip(text), "\n")
        subj  == IF lines # << >> THEN lines[1] ELSE NewEmail
    IN  IF Len(subj) > SubjectLimit
        THEN SubSeq(subj, 1, SubjectLimit) \o Ellipsis
        ELSE subj

AlertPrefix == <<"U+1F6A8">> \o <<" ", "I", "M", "P", "O", "R", "T", "A", "N", "T", " ", "E", "M", "A", "I", "L", " ", "A", "L", "E", "R", "T", ":", " ">>

NoneText == <<"N", "o", "n", "e">>

\* variant: the notification text takes its urgency from analyze_email_tool
_generate_notification_by_analysis(text) ==
    IF analyze_email_tool(text).is_urgent
    THEN AlertPrefix \o _extract_subject(text)
    ELSE NoneText

_generate_notification(text) ==
    IF _is_urgent(text) THEN AlertPrefix \o _extract_subject(text) ELSE NoneText

MessagePrefix == <<"I", "m", "p", "o", "r", "t", "a", "n", "t", " ", "e", "m", "a", "i", "l", " ", "r", "e", "c", "e", "i", "v", "e", "d", ":", " ">>

AlertTitle == <<"U+1F6A8">> \o <<" ", "U", "R", "G", "E", "N", "T", " ", "E", "M", "A", "I", "L", " ", "A", "L", "E", "R", "T">>

(***************************************************************************)
(* Inputs.  A text is built from at most MaxFrags fragments: keywords of   *)
(* each list (in mixed case), a line break and a long filler, so that      *)
(* keywords can meet, repeat and span more than SubjectLimit characters.   *)
(***************************************************************************)
FragUrgent == <<"U", "r", "g", "e", "n", "t">>

FragConfirm == <<"c", "o", "n", "f", "i", "r", "m">>

FragClick == <<"C", "l", "i", "c", "k", " ", "H", "e", "r", "e">>

FragActNow == <<"a", "c", "t", " ", "n", "o", "w">>

FragMeeting == <<"m", "e", "e", "t", "i", "n", "g">>

FragProject == <<"p", "r", "o", "j", "e", "c", "t">>

FragDinner == <<"d", "i", "n", "n", "e", "r">>

FragParty == <<"p", "a", "r", "t", "y">>

FragNewline == <<"\n">>

FragFiller == [i \in 1..FillerLen |-> "x"]

Fragments ==
    { FragUrgent, FragConfirm, FragClick, FragActNow, FragMeeting, FragProject,
      FragDinner, FragParty, FragNewline, FragFiller }

\* whole emails used where several invocations follow one another
SampleTexts ==
    { << >>,
      FragUrgent \o FragNewline \o FragProject,
      FragConfirm,
      FragClick \o FragMeeting,
      FragActNow,
      FragDinner \o FragParty \o FragProject,
      FragFiller \o FragFiller \o FragMeeting }

\* what the text-generation service may hand back: a text, or an exception
CrewOutputs == { << " ", "O", "K", "\n" >> }

KickoffError == << "<exception>" >>

KickoffOutcomes == CrewOutputs \cup { KickoffError }

(***************************************************************************)
(* Values of locals that are not bound yet.                                *)
(***************************************************************************)
UnboundText == << "<unbound>" >>

UnboundCategory == "<unbound>"

UnboundAnalysis == [is_urgent |-> FALSE, is_spam |-> FALSE, content_length |-> -1]

NoError == "<none>"

tone_guide(category) ==
    CASE category = "Work"     -> "professional, respectful tone"
      [] category = "Personal" -> "friendly and warm tone"
      [] category = "Spam"     -> "polite indication that no reply is needed"
      [] category = "Other"    -> "neutral, polite tone"
      [] OTHER                 -> "professional tone"

(***************************************************************************)
(* State machine.                                                          *)
(***************************************************************************)
FreshLocals ==
    /\ subject = UnboundText
    /\ analysis_result = UnboundAnalysis
    /\ classification = UnboundCategory
    /\ summary = UnboundText
    /\ reply = UnboundText
    /\ notification = UnboundText
    /\ alerts = << >>
    /\ requests = << >>
    /\ steps = << >>
    /\ returned = << >>
    /\ raised = NoError

Init ==
    /\ email_content = << >>
    /\ nfrags = 0
    /\ pc = "idle"
    /\ remembered = << >>
    /\ FreshLocals

\* the caller extends the email it is about to submit
Type(f) ==
    /\ pc = "idle"
    /\ nfrags < MaxFrags
    /\ email_content' = email_content \o f
    /\ nfrags' = nfrags + 1
    /\ UNCHANGED << pc, subject, analysis_result, classification, summary, reply,
                    notification, alerts, requests, steps, returned, raised,
                    remembered >>

\* a direct call of EmailAssistant._extract_subject
call_extract_subject ==
    /\ pc = "idle"
    /\ subject' = _extract_subject(email_content)
    /\ pc' = "subject_returned"
    /\ UNCHANGED << email_content, nfrags, analysis_result, classification, summary,
                    reply, notification, alerts, requests, steps, returned, raised,
                    remembered >>

\* process_email, STEP 1: urgency check and real-time alert
urgency_check ==
    /\ pc = "idle"
    /\ IF _is_urgent(email_content)
       THEN /\ subject' = _extract_subject(email_content)
            /\ alerts' = Append(alerts, [message |-> MessagePrefix \o subject',
                                         title   |-> AlertTitle])
            /\ steps' = steps \o << "urgency_check", "alert" >>
       ELSE /\ steps' = Append(steps, "urgency_check")
            /\ UNCHANGED << subject, alerts >>
    /\ pc' = "analyze"
    /\ UNCHANGED << email_content, nfrags, analysis_result, classification, summary,
                    reply, notification, requests, returned, raised, remembered >>

\* STEP 2
analyze ==
    /\ pc = "analyze"
    /\ analysis_result' = analyze_email_tool(email_content)
    /\ steps' = Append(steps, "analyze")
    /\ pc' = "classify"
    /\ UNCHANGED << email_content, nfrags, subject, classification, summary, reply,
                    notification, alerts, requests, returned, raised, remembered >>

\* variant: the classification is not computed before the generation calls
classify_skipped ==
    /\ pc = "classify"
    /\ pc' = "summarize"
    /\ UNCHANGED << email_content, nfrags, subject, analysis_result, classification,
                    summary, reply, notification, alerts, requests, steps, returned,
                    raised, remembered >>

\* STEP 3
classify ==
    /\ pc = "classify"
    /\ classification' = classify_email_tool(email_content)
    /\ steps' = Append(steps, "classify")
    /\ pc' = "summarize"
    /\ UNCHANGED << email_content, nfrags, subject, analysis_result, summary, reply,
                    notification, alerts, requests, returned, raised, remembered >>

\* variant: a failed summary call is swallowed and the pipeline goes on
summarize_swallowing(out) ==
    /\ pc = "summarize"
    /\ requests' = Append(requests, [kind  |-> "summary",
                                     email |-> email_content,
                                     classification |-> UnboundCategory,
                                     tone  |-> "",
                                     expected_output |-> "A 2-3 sentence summary of the email",
                                     outcome |-> IF out = KickoffError THEN "raised" ELSE "returned"])
    /\ steps' = Append(steps, "summary_request")
    /\ summary' = IF out = KickoffError THEN << >> ELSE strip(out)
    /\ pc' = "draft"
    /\ UNCHANGED << email_content, nfrags, subject, analysis_result, classification,
                    reply, notification, alerts, returned, raised, remembered >>

\* STEP 4: summary_crew.kickoff() returns `out` or raises
summarize(out) ==
    /\ pc = "summarize"
    /\ requests' = Append(requests, [kind  |-> "summary",
                                     email |-> email_content,
                                     classification |-> UnboundCategory,
                                     tone  |-> "",
                                     expected_output |-> "A 2-3 sentence summary of the email",
                                     outcome |-> IF out = KickoffError THEN "raised" ELSE "returned"])
    /\ steps' = Append(steps, "summary_request")
    /\ IF out = KickoffError
       THEN /\ raised' = "summary_crew.kickoff"
            /\ pc' = "raised"
            /\ UNCHANGED summary
       ELSE /\ summary' = strip(out)
            /\ pc' = "draft"
            /\ UNCHANGED raised
    /\ UNCHANGED << email_content, nfrags, subject, analysis_result, classification,
                    reply, notification, alerts, returned, remembered >>

\* STEP 5: reply_crew.kickoff() returns `out` or raises
draft_reply(out) ==
    /\ pc = "draft"
    /\ requests' = Append(requests, [kind  |-> "reply",
                                     email |-> email_content,
                                     classification |-> classification,
                                     tone  |-> tone_guide(classification),
                                     expected_output |-> "A professional, well-formatted email reply",
                                     outcome |-> IF out = KickoffError THEN "raised" ELSE "returned"])
    /\ steps' = Append(steps, "reply_request")
    /\ IF out = KickoffError
       THEN /\ raised' = "reply_crew.kickoff"
            /\ pc' = "raised"
            /\ UNCHANGED reply
       ELSE /\ reply' = strip(out)
            /\ pc' = "notify"
            /\ UNCHANGED raised
    /\ UNCHANGED << email_content, nfrags, subject, analysis_result, classification,
                    summary, notification, alerts, returned, remembered >>

\* STEP 6 and the return statement
finish ==
    /\ pc = "notify"
    /\ notification' = _generate_notification(email_content)
    /\ returned' = Append(returned, [summary        |-> summary,
                                     classification |-> classification,
                                     reply          |-> reply,
                                     notification   |-> notification'])
    /\ steps' = steps \o << "notification", "return" >>
    /\ pc' = "returned"
    /\ UNCHANGED << email_content, nfrags, subject, analysis_result, classification,
                    summary, reply, alerts, requests, raised, remembered >>

Next ==
    \/ \E f \in Fragments : Type(f)
    \/ call_extract_subject
    \/ urgency_check
    \/ analyze
    \/ classify
    \/ \E out \in KickoffOutcomes : summarize(out)
    \/ \E out \in KickoffOutcomes : draft_reply(out)
    \/ finish

Spec == Init /\ [][Next]_vars

(***************************************************************************)
(* Several invocations on one EmailAssistant, one after the other.         *)
(***************************************************************************)
Outcome ==
    [ text           |-> email_content,
      analysis       |-> analysis_result,
      classification |-> classification,
      notification   |-> notification,
      failed         |-> pc = "raised" ]

InitSeq ==
    /\ email_content \in SampleTexts
    /\ nfrags = 0
    /\ pc = "idle"
    /\ remembered = << >>
    /\ FreshLocals

\* the previous call is over; the caller submits the next email
next_email(t) ==
    /\ pc \in {"returned", "raised"}
    /\ email_content' = t
    /\ remembered' \in {remembered, << Outcome >>}
    /\ pc' = "idle"
    /\ subject' = UnboundText
    /\ analysis_result' = UnboundAnalysis
    /\ classification' = UnboundCategory
    /\ summary' = UnboundText
    /\ reply' = UnboundText
    /\ notification' = UnboundText
    /\ alerts' = << >>
    /\ requests' = << >>
    /\ steps' = << >>
    /\ returned' = << >>
    /\ raised' = NoError
    /\ UNCHANGED nfrags

NextSeq ==
    \/ \E t \in SampleTexts : next_email(t)
    \/ urgency_check
    \/ analyze
    \/ classify
    \/ \E out \in KickoffOutcomes : summarize(out)
    \/ \E out \in KickoffOutcomes : draft_reply(out)
    \/ finish

SpecSeq == InitSeq /\ [][NextSeq]_vars

(***************************************************************************)
(* Vocabulary of the properties.                                           *)
(***************************************************************************)
Range(q) == {q[i] : i \in DOMAIN q}

Categories == {"Work", "Personal", "Spam", "Other"}

\* the four spam terms of the classification
SpamTerms ==
    { <<"l", "o", "t", "t", "e", "r", "y">>,
      <<"w", "i", "n", "n", "e", "r">>,
      <<"c", "l", "i", "c", "k", " ", "h", "e", "r", "e">>,
      <<"f", "r", "e", "e", " ", "m", "o", "n", "e", "y">> }

HasSpamTerm(text) ==
    LET lowered == lower(text) IN \E k \in SpamTerms : contains(lowered, k)

\* number of distinct keywords of a list that occur in the lower-cased text
DistinctIn(keywords, text) ==
    LET lowered == lower(text)
    IN  Cardinality({k \in Range(keywords) : contains(lowered, k)})

\* the first line of a text: everything before its first line break
FirstLine(s) ==
    IF \E i \in 1..Len(s) : s[i] = "\n"
    THEN SubSeq(s, 1, (CHOOSE i \in 1..Len(s) :
                          s[i] = "\n" /\ \A j \in 1..(i - 1) : s[j] # "\n") - 1)
    ELSE s

IsPrefix(a, b) == Len(a) <= Len(b) /\ SubSeq(b, 1, Len(a)) = a

IsAlert(n) == IsPrefix(AlertPrefix, n)

AfterPrefix(prefix, n) == SubSeq(n, Len(prefix) + 1, Len(n))

ExpectedSteps(urgent) ==
    << "urgency_check" >> \o (IF urgent THEN << "alert" >> ELSE << >>)
      \o << "analyze", "classify", "summary_request", "reply_request",
            "notification", "return" >>

(***************************************************************************)
(* Properties.                                                             *)
(***************************************************************************)

\* C1: the notification returned by process_email is the alert string with
\* the extracted subject iff analyze's is_urgent is true, and the sentinel
\* otherwise.
C1_NotificationFollowsAnalysis ==
    pc = "returned" =>
        IF analysis_result.is_urgent
        THEN returned[1].notification = AlertPrefix \o _extract_subject(email_content)
        ELSE returned[1].notification = NoneText

\* C2: a text that contains one of the four spam terms is classified Spam,
\* whatever work and personal keywords it holds.
C2_SpamPrecedence ==
    (classification # UnboundCategory /\ HasSpamTerm(email_content))
        => classification = "Spam"

C2_Witness ==
    /\ classification = "Spam"
    /\ HasSpamTerm(email_content)
    /\ DistinctIn(work_keywords, email_content) > 0

\* C3: without a spam term the category is Work iff more distinct work than
\* personal keywords occur, Personal iff more personal than work, Other iff
\* the counts are equal; the category is always one of the four.
C3_MajorityOfDistinctKeywords ==
    classification # UnboundCategory =>
        /\ classification \in Categories
        /\ ~HasSpamTerm(email_content) =>
             LET w == DistinctIn(work_keywords, email_content)
                 p == DistinctIn(personal_keywords, email_content)
             IN  /\ classification = "Work" <=> w > p
                 /\ classification = "Personal" <=> p > w
                 /\ classification = "Other" <=> w = p

C3_Witness ==
    /\ email_content = FragMeeting \o FragMeeting \o FragDinner
    /\ classification = "Other"

\* C4: _extract_subject of a text that is empty after stripping returns
\* "New Email".
C4_EmptyGivesFallback ==
    (pc = "subject_returned" /\ strip(email_content) = << >>)
        => subject = NewEmail

\* C5: a first line of more than 60 characters gives its first 60 characters
\* followed by "..." (63 in all); a first line of at most 60 characters is
\* returned as it is; the subject never exceeds 63 characters.
C5_SubjectTruncation ==
    subject # UnboundText =>
        LET L == FirstLine(strip(email_content))
        IN  /\ Len(L) > 60 =>
                 /\ subject = SubSeq(L, 1, 60) \o << ".", ".", "." >>
                 /\ Len(subject) = 63
            /\ Len(L) <= 60 => subject = L
            /\ Len(subject) <= 63

C5_Witness ==
    /\ pc = "subject_returned"
    /\ Len(FirstLine(strip(email_content))) > 60
    /\ Len(subject) = 63

\* C6: the steps of an invocation run in one fixed order: urgency check
\* (with the alert only there, only if urgent), analyze, classify, summary
\* request, reply request, notification, return; a completed invocation has
\* issued exactly two generation requests, summary then reply, and a reply
\* request carries the classification already computed.
C6_LinearOrder ==
    /\ LET expected == ExpectedSteps(_is_urgent(email_content))
       IN  /\ IsPrefix(steps, expected)
           /\ pc = "returned" => steps = expected
    /\ Len(alerts) = Cardinality({i \in DOMAIN steps : steps[i] = "alert"})
    /\ pc = "returned" =>
         /\ Len(requests) = 2
         /\ requests[1].kind = "summary"
         /\ requests[2].kind = "reply"
    /\ \A i \in DOMAIN requests :
         requests[i].kind = "reply" =>
           /\ i > 1
           /\ requests[i - 1].kind = "summary"
           /\ requests[i].classification \in Categories
           /\ requests[i].classification = classification

C6_Witness ==
    /\ pc = "returned"
    /\ Len(alerts) = 1
    /\ Len(requests) = 2

\* C7: a failed generation call ends the invocation with the error and no
\* result (after a failed summary call no reply call is issued); no call is
\* attempted twice; a result is returned only after both calls succeeded and
\* then has all four fields.
C7_NoPartialResultNoRetry ==
    /\ \A i \in DOMAIN requests :
         requests[i].outcome = "raised" => (pc = "raised" /\ i = Len(requests))
    /\ pc = "raised" => (returned = << >> /\ raised # NoError)
    /\ raised = "summary_crew.kickoff" =>
         \A i \in DOMAIN requests : requests[i].kind # "reply"
    /\ \A i, j \in DOMAIN requests :
         requests[i].kind = requests[j].kind => i = j
    /\ returned # << >> =>
         /\ Len(returned) = 1
         /\ raised = NoError
         /\ Len(requests) = 2
         /\ \A i \in DOMAIN requests : requests[i].outcome = "returned"
         /\ DOMAIN returned[1] = {"summary", "classification", "reply", "notification"}
         /\ returned[1].summary # UnboundText
         /\ returned[1].reply # UnboundText
         /\ returned[1].notification # UnboundText
         /\ returned[1].classification \in Categories

C7_Witness ==
    /\ pc = "raised"
    /\ raised = "reply_crew.kickoff"
    /\ summary # UnboundText
    /\ returned = << >>

\* C8: in a completed invocation the sink was called, exactly once, iff the
\* returned notification is the alert string, and both carry the same
\* subject; it was not called when the notification is the sentinel.
C8_AlertMatchesNotification ==
    pc = "returned" =>
        LET n == returned[1].notification
        IN  /\ Len(alerts) <= 1
            /\ Len(alerts) = 1 <=> IsAlert(n)
            /\ IsAlert(n) \/ n = NoneText
            /\ n = NoneText => alerts = << >>
            /\ IsAlert(n) =>
                 /\ IsPrefix(MessagePrefix, alerts[1].message)
                 /\ AfterPrefix(AlertPrefix, n)
                      = AfterPrefix(MessagePrefix, alerts[1].message)

C8_Witness ==
    /\ pc = "returned"
    /\ Len(alerts) = 1
    /\ IsAlert(returned[1].notification)
    /\ analysis_result.is_urgent

C10_SpamImpliesIsSpam ==
    /\ Range(classify_spam_indicators) \subseteq Range(analyze_spam_indicators)
    /\ (classification = "Spam" /\ analysis_result # UnboundAnalysis)
         => analysis_result.is_spam

C10_Witness ==
    /\ pc = "returned"
    /\ classification = "Spam"
    /\ analysis_result.is_spam

====
